---- MODULE Spec2Model ----
(***************************************************************************)
(* A model of nextcloudSimpleCLI (main.py): one run of the command line    *)
(* client, from the parsed arguments through nextcloud_connect to either   *)
(* upload or list.  The remote server, the local file system and the       *)
(* config files are the environment: every call into them answers with a   *)
(* nondeterministically chosen outcome.  trace is the history of the run:  *)
(* every line printed and every server call issued, in program order.      *)
(***************************************************************************)
EXTENDS Integers, Sequences, FiniteSets

VARIABLES args, pc, url, username, password, session, destination,
          all_destinations, i, trace, exc,
          file_list,    \* the list handed to _print_nc_files
          nums,         \* the byte counts handed to sizeof_fmt
          fmt           \* what sizeof_fmt returned for them

vars == <<args, pc, url, username, password, session, destination,
          all_destinations, i, trace, exc, file_list, nums, fmt>>

(***************************************************************************)
(* Bounds of the model.                                                    *)
(***************************************************************************)
MaxSources == 2

(***************************************************************************)
(* Values.                                                                 *)
(***************************************************************************)
\* Python's None (an option that was not given on the command line).
None == "None"
\* A local name that no branch has assigned.
Unbound == "UNBOUND"
\* The status field of a call that returned without raising.
NoError == 0
\* HTTPResponseError.status_code: the three statuses the program looks for
\* and one it does not.
StatusCodes == {404, 405, 409, 500}
Outcomes == {NoError} \cup StatusCodes

\* Paths are strings: sequences of characters.  The destinations given on
\* the command line: the empty one, with and without a "/" at the end, with
\* a "/" elsewhere.
Destinations ==
    {<<>>, <<"a">>, <<"/">>, <<"a", "/">>, <<"/", "a">>, <<"/", "/">>}

\* The local paths a command line names, in command line order.
SourceNames == <<<<"p">>, <<"q">>, <<"r">>, <<"s">>>>
SourceLists == {SubSeq(SourceNames, 1, n) : n \in 0..MaxSources}

DEFAULT_SETTINGS_FILE == "config.json"

\* parse_args: the namespace argparse returns.  destination is required,
\* source_files takes what is left before it; the options default to None
\* (store_true ones to False).
ParsedArgs ==
    [source_files : SourceLists,
     destination : Destinations,
     l : BOOLEAN,
     human_readable : BOOLEAN,
     config : {None, "cfg.json"},
     server : {None, "-s"},
     user : {None, "-u"},
     password : {None, "-p"}]

(***************************************************************************)
(* The history.                                                            *)
(***************************************************************************)
\* A server call: the method, its arguments, how it answered (the status of
\* the HTTPResponseError it raised, or NoError) and the loop item it was
\* issued for.
Called(what, path, dest, status, info, n) ==
    [type |-> "call", what |-> what, path |-> path, dest |-> dest,
     status |-> status, info |-> info, item |-> n, text |-> <<>>]

\* A printed line: which message, the names it carries, the loop item.
Printed(what, path, dest, n) ==
    [type |-> "print", what |-> what, path |-> path, dest |-> dest,
     status |-> NoError, info |-> "-", item |-> n, text |-> <<>>]

\* What Path.exists() and Path.is_dir() answered for a local path.
Stat(path, exists, is_dir, n) ==
    [type |-> "stat", what |-> "exists", path |-> path, dest |-> <<>>,
     status |-> NoError,
     info |-> IF ~exists THEN "missing" ELSE IF is_dir THEN "dir" ELSE "file",
     item |-> n, text |-> <<>>]

\* A line of _print_nc_files: the size column, the time stamp, the name.
PrintedEntry(size_column, last_modified, name, n) ==
    [type |-> "print", what |-> "entry", path |-> name, dest |-> <<>>,
     status |-> NoError, info |-> last_modified, item |-> n,
     text |-> size_column]

NoException == [type |-> "none", status |-> NoError]
HTTPResponseError(status) == [type |-> "HTTPResponseError", status |-> status]
OtherError(type) == [type |-> type, status |-> NoError]

Init ==
    /\ args \in ParsedArgs
    /\ pc = "nextcloud_connect"
    /\ url = Unbound
    /\ username = Unbound
    /\ password = Unbound
    /\ session = "none"
    /\ destination = <<>>
    /\ all_destinations = <<>>
    /\ i = 0
    /\ trace = <<>>
    /\ exc = NoException
    /\ file_list = <<>>
    /\ nums = <<>>
    /\ fmt = <<>>

(***************************************************************************)
(* nextcloud_connect                                                       *)
(***************************************************************************)
\* What open() and json.load() find in a config file: no readable file, or
\* a record with some of the keys.
ConfigKeys == {"url", "username", "password"}
ConfigFiles ==
    {[readable |-> FALSE, keys |-> {}]}
        \cup {[readable |-> TRUE, keys |-> K] : K \in SUBSET ConfigKeys}

\* The value a config file holds under a key.
ConfigValue(file, key) == file \o ":" \o key

\* The branch of the credential resolution that is taken.
CredentialBranch(a) ==
    IF a.server # None /\ a.user # None /\ a.password # None THEN "explicit"
    ELSE IF a.config # None THEN "config"
    ELSE IF a.config = None /\ a.server = None THEN "default"
    ELSE "pass"

_get_default_file_location == DEFAULT_SETTINGS_FILE

\* _read_config_file returns the triple when the file could be opened and
\* holds the three keys.
ReadConfigOk(content) ==
    /\ content.readable
    /\ "url" \in content.keys
    /\ "username" \in content.keys
    /\ "password" \in content.keys

Raise(e) ==
    /\ pc' = "crashed"
    /\ exc' = e

nextcloud_connect_resolve ==
    /\ pc = "nextcloud_connect"
    /\ LET branch == CredentialBranch(args) IN
       CASE branch = "explicit" ->
              /\ url' = args.server
              /\ username' = args.user
              /\ password' = args.password
              /\ pc' = "login"
              /\ UNCHANGED exc
         [] branch \in {"config", "default"} ->
              LET file == IF branch = "config" THEN args.config
                          ELSE _get_default_file_location
              IN \E content \in ConfigFiles :
                   IF ReadConfigOk(content)
                   THEN /\ url' = ConfigValue(file, "url")
                        /\ username' = ConfigValue(file, "username")
                        /\ password' = ConfigValue(file, "password")
                        /\ pc' = "login"
                        /\ UNCHANGED exc
                   ELSE /\ Raise(IF ~content.readable THEN OtherError("OSError")
                                 ELSE OtherError("KeyError"))
                        /\ UNCHANGED <<url, username, password>>
         [] OTHER ->
              /\ pc' = "login"
              /\ UNCHANGED <<url, username, password, exc>>
    /\ UNCHANGED <<file_list, nums, fmt>>
    /\ UNCHANGED <<args, session, destination, all_destinations, i, trace>>

\* main: the workflow the run goes on with once nextcloud_connect returned.
MainDispatch_Inverted(a) == IF a.l = TRUE THEN "upload" ELSE "list"

MainDispatch(a) == IF a.l = TRUE THEN "list" ELSE "upload"

\* Where the run stands after nc.login answered.
LoginNext_IgnoresFailure(ok, a) == MainDispatch(a)

LoginNext(ok, a) == IF ok THEN MainDispatch(a) ELSE "crashed"

nextcloud_connect_login ==
    /\ pc = "login"
    /\ IF url = Unbound
       THEN /\ Raise(OtherError("UnboundLocalError"))
            /\ UNCHANGED session
       ELSE \E ok \in BOOLEAN :
              /\ session' = IF ok THEN "logged_in" ELSE "created"
              /\ pc' = LoginNext(ok, args)
              /\ exc' = IF ok THEN exc ELSE HTTPResponseError(401)
    /\ UNCHANGED <<file_list, nums, fmt>>
    /\ UNCHANGED <<args, url, username, password, destination,
                   all_destinations, i, trace>>

(***************************************************************************)
(* upload                                                                  *)
(***************************************************************************)
\* destination[-1:] == "/"
EndsWithSlash(d) == Len(d) > 0 /\ d[Len(d)] = "/"

\* The destination upload works with: a trailing slash is added when
\* there is none.
Normalize_AlwaysAppends(d) == d \o <<"/">>

Normalize(d) == IF EndsWithSlash(d) THEN d ELSE d \o <<"/">>

\* The for loop over args.source_files goes to its next item, or the
\* function returns and the run is over.
LoopAdvance(items, loop) ==
    /\ i' = i + 1
    /\ pc' = IF i + 1 > Len(items) THEN "done" ELSE loop

upload_start ==
    /\ pc = "upload"
    /\ trace' = IF Len(args.source_files) = 0
                THEN trace \o <<Printed("source files / folders are missing", <<>>, <<>>, 0),
                                Printed("see usage", <<>>, <<>>, 0)>>
                ELSE trace
    /\ destination' = Normalize(args.destination)
    /\ i' = 1
    /\ pc' = IF Len(args.source_files) = 0 THEN "done" ELSE "upload_loop"
    /\ UNCHANGED <<file_list, nums, fmt>>
    /\ UNCHANGED <<args, url, username, password, session, all_destinations, exc>>

\* The branch of the loop body taken for a path, from what Path.exists()
\* and Path.is_dir() answer.
UploadBranch_NoExistsCheck(exists, is_dir) ==
    IF exists /\ is_dir THEN "put_directory" ELSE "mkdir"

UploadBranch_DirAsFile(exists, is_dir) ==
    IF exists THEN "mkdir" ELSE "skip"

UploadBranch(exists, is_dir) ==
    IF exists THEN (IF is_dir THEN "put_directory" ELSE "mkdir") ELSE "skip"

upload_loop ==
    /\ pc = "upload_loop"
    /\ LET file == args.source_files[i] IN
       \E exists \in BOOLEAN, is_dir \in BOOLEAN :
         LET branch == UploadBranch(exists, is_dir)
             seen == Append(trace, Stat(file, exists, is_dir, i))
         IN
           CASE branch = "put_directory" ->
                  /\ trace' = Append(seen, Printed("uploading dir", file, destination, i))
                  /\ pc' = "put_directory"
                  /\ UNCHANGED i
             [] branch = "mkdir" ->
                  /\ trace' = Append(seen, Printed("uploading file", file, destination, i))
                  /\ pc' = "mkdir"
                  /\ UNCHANGED i
             [] OTHER ->
                  /\ trace' = Append(seen, Printed("does not exist", file, <<>>, i))
                  /\ LoopAdvance(args.source_files, "upload_loop")
    /\ UNCHANGED <<file_list, nums, fmt>>
    /\ UNCHANGED <<args, url, username, password, session, destination,
                   all_destinations, exc>>

\* The except clause around nc.put_directory: the statuses after which the
\* loop continues with the next item.
PutDirectoryContinues(status) == status \in StatusCodes

\* The statuses for which that clause prints the conflict message.
PutDirectoryReports_On409(status) == status = 409

PutDirectoryReports(status) == status = 405

put_directory ==
    /\ pc = "put_directory"
    /\ LET file == args.source_files[i] IN
       \E status \in Outcomes :
         /\ trace' = trace
                \o <<Called("put_directory", file, destination, status, "-", i)>>
                \o (IF status # NoError /\ PutDirectoryContinues(status)
                       /\ PutDirectoryReports(status)
                    THEN <<Printed("Could not upload", file, <<>>, i),
                           Printed("already exists in", file, destination, i),
                           Printed("Remove it from Nextcloud", <<>>, <<>>, i)>>
                    ELSE <<>>)
         /\ IF status = NoError \/ PutDirectoryContinues(status)
            THEN /\ LoopAdvance(args.source_files, "upload_loop")
                 /\ UNCHANGED exc
            ELSE /\ Raise(HTTPResponseError(status))
                 /\ UNCHANGED i
    /\ UNCHANGED <<file_list, nums, fmt>>
    /\ UNCHANGED <<args, url, username, password, session, destination,
                   all_destinations>>

\* The except clause around nc.mkdir: the statuses after which upload goes
\* on to nc.put_file.
MkdirContinues_Not409(status) == status \in StatusCodes \ {409}

MkdirContinues(status) == status \in StatusCodes

mkdir ==
    /\ pc = "mkdir"
    /\ \E status \in Outcomes :
         /\ trace' = Append(trace, Called("mkdir", <<>>, destination, status, "-", i))
         /\ IF status = NoError \/ MkdirContinues(status)
            THEN /\ pc' = "put_file"
                 /\ UNCHANGED exc
            ELSE Raise(HTTPResponseError(status))
    /\ UNCHANGED <<file_list, nums, fmt>>
    /\ UNCHANGED <<args, url, username, password, session, destination,
                   all_destinations, i>>

put_file_Swallows ==
    /\ pc = "put_file"
    /\ LET file == args.source_files[i] IN
       \E status \in Outcomes :
         /\ trace' = Append(trace, Called("put_file", file, destination, status, "-", i))
         /\ LoopAdvance(args.source_files, "upload_loop")
         /\ UNCHANGED exc
    /\ UNCHANGED <<file_list, nums, fmt>>
    /\ UNCHANGED <<args, url, username, password, session, destination,
                   all_destinations>>

put_file ==
    /\ pc = "put_file"
    /\ LET file == args.source_files[i] IN
       \E status \in Outcomes :
         /\ trace' = Append(trace, Called("put_file", file, destination, status, "-", i))
         /\ IF status = NoError
            THEN /\ LoopAdvance(args.source_files, "upload_loop")
                 /\ UNCHANGED exc
            ELSE /\ Raise(HTTPResponseError(status))
                 /\ UNCHANGED i
    /\ UNCHANGED <<file_list, nums, fmt>>
    /\ UNCHANGED <<args, url, username, password, session, destination,
                   all_destinations>>

(***************************************************************************)
(* sizeof_fmt and _print_nc_files                                          *)
(***************************************************************************)
DigitChars == <<"0", "1", "2", "3", "4", "5", "6", "7", "8", "9">>

\* str(n) for an int n >= 0.
RECURSIVE Str(_)
Str(n) == IF n < 10 THEN <<DigitChars[n + 1]>>
          ELSE Str(n \div 10) \o <<DigitChars[(n % 10) + 1]>>

Units == <<"", "K", "M", "G", "T", "P", "E", "Z">>

\* The numbers of sizeof_fmt are written in base 1024, the most significant
\* digit first and no zero in front (zero is <<0>>): an int of any size, as
\* Python has them, and what the divisions by 1024.0 make of it.
Base == 1024

\* int(...) of a size the server reported.
RECURSIVE PyInt(_)
PyInt(n) == IF n < Base THEN <<n>> ELSE PyInt(n \div Base) \o <<n % Base>>

RECURSIVE DigitsToInt(_)
DigitsToInt(ds) ==
    IF ds = <<>> THEN 0
    ELSE DigitsToInt(SubSeq(ds, 1, Len(ds) - 1)) * Base + ds[Len(ds)]

AllZero(ds) == \A k \in DOMAIN ds : ds[k] = 0

\* The digits after the point against one half: -1 below, 0 equal, 1 above.
HalfCompare(ds) ==
    IF ds = <<>> THEN -1
    ELSE IF 2 * ds[1] > Base THEN 1
    ELSE IF 2 * ds[1] < Base THEN -1
    ELSE IF AllZero(Tail(ds)) THEN 0 ELSE 1

\* ds plus c at its last digit.
RECURSIVE AddLast(_, _)
AddLast(ds, c) ==
    IF c = 0 THEN ds
    ELSE IF ds = <<>> THEN <<c>>
    ELSE LET v == ds[Len(ds)] + c
         IN AddLast(SubSeq(ds, 1, Len(ds) - 1), v \div Base) \o <<v % Base>>

\* The significant bits of a float.
MantissaBits == 53

\* The bits of a digit d > 0.
BitLen(d) == CHOOSE b \in 1..10 : 2 ^ (b - 1) <= d /\ d < 2 ^ b

BitsOf(ds) == IF ds[1] = 0 THEN 0 ELSE 10 * (Len(ds) - 1) + BitLen(ds[1])

\* float(n) of an int, which `num /= 1024.0` makes of num the first time:
\* the nearest number of MantissaBits bits, a tie to the even one.
ToFloat(ds) ==
    IF BitsOf(ds) <= MantissaBits THEN ds
    ELSE LET drop == BitsOf(ds) - MantissaBits
             q == drop \div 10
             r == drop % 10
             pos == Len(ds) - q
             unit == 2 ^ r
             low == ds[pos] % unit
             tail == SubSeq(ds, pos + 1, Len(ds))
             cmp == IF r = 0 THEN HalfCompare(tail)
                    ELSE HalfCompare(<<low * (Base \div unit)>> \o tail)
             odd == (ds[pos] \div unit) % 2 = 1
             up == cmp = 1 \/ (cmp = 0 /\ odd)
             kept == SubSeq(ds, 1, pos - 1) \o <<ds[pos] - low>>
         IN (IF up THEN AddLast(kept, unit) ELSE kept) \o [k \in 1..q |-> 0]

\* A value of num: the number ds with its last `frac` digits after the point.
Num(ds, frac) == [ds |-> ds, frac |-> frac]

\* abs(num) < 1024.0
Below1024_Inclusive(v) ==
    \/ Len(v.ds) - v.frac <= 1
    \/ Len(v.ds) - v.frac = 2 /\ v.ds[1] = 1 /\ AllZero(Tail(v.ds))

Below1024(v) == Len(v.ds) - v.frac <= 1

\* num /= 1024.0: exact for a float; an int becomes a float first.
Divide(v) == Num(IF v.frac = 0 THEN ToFloat(v.ds) ELSE v.ds, v.frac + 1)

\* ds times 10 plus c at its last digit, the carry out in front.
RECURSIVE Times10(_, _)
Times10(ds, c) ==
    IF ds = <<>> THEN <<c>>
    ELSE LET v == ds[Len(ds)] * 10 + c
         IN Times10(SubSeq(ds, 1, Len(ds) - 1), v \div Base) \o <<v % Base>>

\* f"{num:.1f}": the tenths are rounded to the nearest, a tie to the even
\* one.
Fixed1(v) ==
    LET cut == Len(v.ds) - v.frac
        whole == DigitsToInt(SubSeq(v.ds, 1, cut))
        scaled == Times10(SubSeq(v.ds, cut + 1, Len(v.ds)), 0)
        t == scaled[1]
        cmp == HalfCompare(Tail(scaled))
        up == IF cmp = 1 \/ (cmp = 0 /\ t % 2 = 1) THEN 1 ELSE 0
        tenths == 10 * whole + t + up
    IN Str(tenths \div 10) \o <<".">> \o Str(tenths % 10)

\* The loop of sizeof_fmt at the unit k, and the return after it.
RECURSIVE SizeofFmtFrom(_, _)
SizeofFmtFrom(v, k) ==
    IF k > Len(Units) THEN Fixed1(v) \o <<"Y", "i">>
    ELSE IF Below1024(v)
         THEN Fixed1(v) \o (IF Units[k] = "" THEN <<>> ELSE <<Units[k]>>)
         ELSE SizeofFmtFrom(Divide(v), k + 1)

sizeof_fmt(num) == SizeofFmtFrom(Num(num, 0), 1)

\* _get_file_size
GetFileSize(file) == IF file.is_dir THEN file.quota_used ELSE file.size

\* str(file_size) as both loops of _print_nc_files compute it.
SizeString(print_human, file) ==
    IF print_human THEN sizeof_fmt(PyInt(GetFileSize(file)))
    ELSE Str(GetFileSize(file))

\* The first loop: the longest size string.
Padding_OfLastEntry(print_human, files) ==
    IF files = <<>> THEN 0
    ELSE Len(SizeString(print_human, files[Len(files)]))

RECURSIVE Padding(_, _)
Padding(print_human, files) ==
    IF files = <<>> THEN 0
    ELSE LET rest == Padding(print_human, SubSeq(files, 1, Len(files) - 1))
             len == Len(SizeString(print_human, files[Len(files)]))
         IN IF len > rest THEN len ELSE rest

\* f"{s:>{width}}"
RECURSIVE RightAlign(_, _)
RightAlign(s, width) == IF Len(s) >= width THEN s ELSE RightAlign(<<" ">> \o s, width)

\* PurePath(path).name: the last component of the path.
RECURSIVE BaseName(_)
BaseName(path) ==
    IF path = <<>> THEN <<>>
    ELSE IF path[Len(path)] = "/" THEN BaseName(SubSeq(path, 1, Len(path) - 1))
    ELSE LET slashes == {k \in 1..Len(path) : path[k] = "/"}
         IN IF slashes = {} THEN path
            ELSE SubSeq(path, (CHOOSE k \in slashes : \A m \in slashes : m <= k) + 1,
                        Len(path))

\* The lines _print_nc_files prints for a list of files, in order.
PrintNcFiles(print_human, files, n) ==
    LET padding == Padding(print_human, files) IN
    [k \in 1..Len(files) |->
        LET file == files[k] IN
        PrintedEntry(RightAlign(SizeString(print_human, file), padding),
                     file.last_modified,
                     BaseName(file.path) \o (IF file.is_dir THEN <<"/">> ELSE <<>>),
                     n)]

(***************************************************************************)
(* list                                                                    *)
(***************************************************************************)
\* What the server may answer: the FileInfo objects of nc.file_info and of
\* nc.list.
FileInfo(path, is_dir, size, quota_used) ==
    [path |-> path, is_dir |-> is_dir, size |-> size, quota_used |-> quota_used,
     last_modified |-> "Thu, 01 Jan 1970 00:00:00 GMT"]

FileSizes == {7, 1536}

Listings ==
    {<<>>,
     <<FileInfo(<<"y", "/">>, TRUE, 0, 1048575), FileInfo(<<"x">>, FALSE, 1024, 0)>>}

\* all_destinations = [args.destination] + args.source_files
AllDestinations(a) == <<a.destination>> \o a.source_files

list_start ==
    /\ pc = "list"
    /\ all_destinations' = AllDestinations(args)
    /\ i' = 1
    /\ pc' = "list_loop"
    /\ UNCHANGED <<file_list, nums, fmt>>
    /\ UNCHANGED <<args, url, username, password, session, destination, trace, exc>>

\* The except clause around nc.file_info: the statuses after which the loop
\* continues with the next path.
FileInfoRecovered_Any(status) == status \in StatusCodes

FileInfoRecovered(status) == status = 404

\* The header line of a path, printed when several paths are listed.
Header_Always(dests, n) == <<Printed("header", dests[n], <<>>, n)>>

Header(dests, n) ==
    IF Len(dests) > 1 THEN <<Printed("header", dests[n], <<>>, n)>> ELSE <<>>

list_loop ==
    /\ pc = "list_loop"
    /\ LET dest == all_destinations[i] IN
       \E status \in Outcomes :
         IF status # NoError
         THEN /\ trace' = trace \o Header(all_destinations, i)
                    \o <<Called("file_info", dest, <<>>, status, "-", i)>>
                    \o (IF FileInfoRecovered(status)
                        THEN <<Printed("not found", dest, <<>>, i)>> ELSE <<>>)
              /\ IF FileInfoRecovered(status)
                 THEN /\ LoopAdvance(all_destinations, "list_loop")
                      /\ UNCHANGED exc
                 ELSE /\ Raise(HTTPResponseError(status))
                      /\ UNCHANGED i
              /\ UNCHANGED file_list
         ELSE \/ \* dst_info is a directory
                 /\ trace' = trace \o Header(all_destinations, i)
                       \o <<Called("file_info", dest, <<>>, status, "dir", i)>>
                 /\ pc' = "nc_list"
                 /\ UNCHANGED <<i, exc, file_list>>
              \/ \* dst_info is a file
                 \E size \in FileSizes :
                   /\ file_list' = <<FileInfo(dest, FALSE, size, 0)>>
                   /\ trace' = trace \o Header(all_destinations, i)
                         \o <<Called("file_info", dest, <<>>, status, "file", i)>>
                         \o PrintNcFiles(args.human_readable, file_list', i)
                   /\ LoopAdvance(all_destinations, "list_loop")
                   /\ UNCHANGED exc
              \/ \* dst_info is None
                 /\ trace' = trace \o Header(all_destinations, i)
                       \o <<Called("file_info", dest, <<>>, status, "none", i)>>
                 /\ LoopAdvance(all_destinations, "list_loop")
                 /\ UNCHANGED <<exc, file_list>>
    /\ UNCHANGED <<nums, fmt>>
    /\ UNCHANGED <<args, url, username, password, session, destination,
                   all_destinations>>

nc_list_Recovers404 ==
    /\ pc = "nc_list"
    /\ LET dest == all_destinations[i] IN
       \E status \in Outcomes :
         IF status = NoError
         THEN \E listing \in Listings :
                /\ file_list' = listing
                /\ trace' = trace
                      \o <<Called("list", dest, <<>>, status, "-", i)>>
                      \o PrintNcFiles(args.human_readable, file_list', i)
                /\ LoopAdvance(all_destinations, "list_loop")
                /\ UNCHANGED exc
         ELSE /\ trace' = Append(trace, Called("list", dest, <<>>, status, "-", i))
              /\ IF status = 404
                 THEN /\ LoopAdvance(all_destinations, "list_loop")
                      /\ UNCHANGED exc
                 ELSE /\ Raise(HTTPResponseError(status))
                      /\ UNCHANGED i
              /\ UNCHANGED file_list
    /\ UNCHANGED <<nums, fmt>>
    /\ UNCHANGED <<args, url, username, password, session, destination,
                   all_destinations>>

nc_list ==
    /\ pc = "nc_list"
    /\ LET dest == all_destinations[i] IN
       \E status \in Outcomes :
         IF status = NoError
         THEN \E listing \in Listings :
                /\ file_list' = listing
                /\ trace' = trace
                      \o <<Called("list", dest, <<>>, status, "-", i)>>
                      \o PrintNcFiles(args.human_readable, file_list', i)
                /\ LoopAdvance(all_destinations, "list_loop")
                /\ UNCHANGED exc
         ELSE /\ trace' = Append(trace, Called("list", dest, <<>>, status, "-", i))
              /\ Raise(HTTPResponseError(status))
              /\ UNCHANGED <<i, file_list>>
    /\ UNCHANGED <<nums, fmt>>
    /\ UNCHANGED <<args, url, username, password, session, destination,
                   all_destinations>>

(***************************************************************************)
(* _print_nc_files on its own: a call with a list of entries drawn from    *)
(* PrintLists.                                                             *)
(***************************************************************************)
MaxEntries == 2

\* Sizes whose renderings differ in length, in digits and with units.
PrintSizes == {0, 7, 1023, 1024, 1536, 1048575}

PrintFiles ==
    {FileInfo(<<"x">>, FALSE, size, 0) : size \in PrintSizes}
        \cup {FileInfo(<<"y", "/">>, TRUE, 0, size) : size \in PrintSizes}

RECURSIVE ListsUpTo(_)
ListsUpTo(n) ==
    IF n = 0 THEN {<<>>}
    ELSE LET S == ListsUpTo(n - 1)
         IN S \cup {Append(l, f) : l \in {t \in S : Len(t) = n - 1}, f \in PrintFiles}

PrintLists == ListsUpTo(MaxEntries)

InitPrint ==
    /\ args \in {a \in ParsedArgs :
                    /\ a.l /\ a.source_files = <<>> /\ a.destination = <<"a">>
                    /\ a.config = None /\ a.server = None
                    /\ a.user = None /\ a.password = None}
    /\ pc = "_print_nc_files"
    /\ url = Unbound
    /\ username = Unbound
    /\ password = Unbound
    /\ session = "logged_in"
    /\ destination = <<>>
    /\ all_destinations = <<>>
    /\ i = 0
    /\ trace = <<>>
    /\ exc = NoException
    /\ file_list \in PrintLists
    /\ nums = <<>>
    /\ fmt = <<>>

print_nc_files ==
    /\ pc = "_print_nc_files"
    /\ trace' = PrintNcFiles(args.human_readable, file_list, 0)
    /\ pc' = "done"
    /\ UNCHANGED <<args, url, username, password, session, destination,
                   all_destinations, i, exc, file_list, nums, fmt>>

NextPrint == print_nc_files

SpecPrint == InitPrint /\ [][NextPrint]_vars

\* sizeof_fmt on its own: the byte counts it is called with, two per run, and
\* what it returned for each.  The counts have up to MaxDigits digits in base
\* 1024 and lie at and next to the powers of 1024 and the ties of float(n).
MaxDigits == 9

FmtDigits(len) ==
    IF len = 1 THEN {<<d>> : d \in {0, 1, 512, 1023}}
    ELSE {<<top>> \o [k \in 1..(len - 2) |-> mid] \o <<last>> :
             top \in {1, 1023}, mid \in {0, 1023},
             last \in {0, 512, 959, 960, 1023}}

FmtNums == UNION {FmtDigits(len) : len \in 1..MaxDigits}

InitFmt ==
    /\ args \in {a \in ParsedArgs :
                    /\ a.l /\ a.human_readable
                    /\ a.source_files = <<>> /\ a.destination = <<"a">>
                    /\ a.config = None /\ a.server = None
                    /\ a.user = None /\ a.password = None}
    /\ pc = "sizeof_fmt"
    /\ url = Unbound
    /\ username = Unbound
    /\ password = Unbound
    /\ session = "logged_in"
    /\ destination = <<>>
    /\ all_destinations = <<>>
    /\ i = 0
    /\ trace = <<>>
    /\ exc = NoException
    /\ file_list = <<>>
    /\ nums \in {<<a, b>> : a \in FmtNums, b \in FmtNums}
    /\ fmt = <<>>

sizeof_fmt_call ==
    /\ pc = "sizeof_fmt"
    /\ fmt' = Append(fmt, sizeof_fmt(nums[Len(fmt) + 1]))
    /\ pc' = IF Len(fmt') = Len(nums) THEN "done" ELSE pc
    /\ UNCHANGED <<args, url, username, password, session, destination,
                   all_destinations, i, trace, exc, file_list, nums>>

NextFmt == sizeof_fmt_call

SpecFmt == InitFmt /\ [][NextFmt]_vars

Next ==
    \/ nextcloud_connect_resolve
    \/ nextcloud_connect_login
    \/ upload_start
    \/ upload_loop
    \/ put_directory
    \/ mkdir
    \/ put_file
    \/ list_start
    \/ list_loop
    \/ nc_list

Spec == Init /\ [][Next]_vars

(***************************************************************************)
(* Properties                                                              *)
(***************************************************************************)
IsCall(k, what) == trace[k].type = "call" /\ trace[k].what = what

\* The state of a loop right after it finished item m of items.
AfterItem(m, items, loop) ==
    /\ exc = NoException
    /\ i = m + 1
    /\ pc = IF m = Len(items) THEN "done" ELSE loop

\* The event at k ended the run with an HTTPResponseError of its status.
Fatal(k) ==
    /\ k = Len(trace)
    /\ pc = "crashed"
    /\ exc = HTTPResponseError(trace[k].status)

\* C1: a put_directory that fails with a status other than 405 ends the run
\* there: it is the last thing the run did and the run crashed with it.
C1_OtherDirFailureAborts ==
    \A k \in DOMAIN trace :
        (IsCall(k, "put_directory") /\ trace[k].status \notin {NoError, 405})
            => Fatal(k)

\* C2: a mkdir that fails with a status other than 409 ends the run there:
\* no put_file follows it.
C2_OtherMkdirFailureAborts ==
    \A k \in DOMAIN trace :
        (IsCall(k, "mkdir") /\ trace[k].status \notin {NoError, 409})
            => Fatal(k)

\* One or two of server, user and password were given.
PartialFlags(a) ==
    LET count == (IF a.server # None THEN 1 ELSE 0) + (IF a.user # None THEN 1 ELSE 0)
                 + (IF a.password # None THEN 1 ELSE 0)
    IN count \in {1, 2}

\* C3: with one or two of the three flags given, once the resolution is over
\* (and the config file was readable and complete) url, username and password
\* are the ones of the config file: the explicit one if given, else the
\* default one.
C3_PartialFlagsResolveFromConfig ==
    (/\ PartialFlags(args)
     /\ pc # "nextcloud_connect"
     /\ exc.type \notin {"OSError", "KeyError"})
        => LET file == IF args.config # None THEN args.config
                       ELSE DEFAULT_SETTINGS_FILE
           IN /\ url = ConfigValue(file, "url")
              /\ username = ConfigValue(file, "username")
              /\ password = ConfigValue(file, "password")

\* C4: a put_directory that fails with 405 is followed by the conflict
\* message naming its source and its destination, and by the next source
\* item (or the normal end of the run when it was the last one).
C4_ConflictIsReportedAndSkipped ==
    \A k \in DOMAIN trace :
        (IsCall(k, "put_directory") /\ trace[k].status = 405)
            => LET m == trace[k].item IN
               /\ Len(trace) >= k + 3
               /\ trace[k + 1] = Printed("Could not upload", args.source_files[m], <<>>, m)
               /\ trace[k + 2] = Printed("already exists in", args.source_files[m],
                                         trace[k].dest, m)
               /\ trace[k + 3] = Printed("Remove it from Nextcloud", <<>>, <<>>, m)
               /\ trace[k].path = args.source_files[m]
               /\ Len(trace) = k + 3 => AfterItem(m, args.source_files, "upload_loop")
               /\ Len(trace) > k + 3 => trace[k + 4].item = m + 1

\* A 405 on the first of several sources, and a server call for the second.
C4_Witness ==
    \E k, j \in DOMAIN trace :
        /\ IsCall(k, "put_directory") /\ trace[k].status = 405 /\ trace[k].item = 1
        /\ trace[j].type = "call" /\ trace[j].item = 2

\* C5: a mkdir that fails with 409 does not end the run: the next thing the
\* run does is put_file for the same source and the same destination.
C5_MkdirConflictThenPutFile ==
    \A k \in DOMAIN trace :
        (IsCall(k, "mkdir") /\ trace[k].status = 409)
            => LET m == trace[k].item IN
               /\ k = Len(trace) => (pc = "put_file" /\ i = m /\ exc = NoException)
               /\ k < Len(trace)
                    => /\ IsCall(k + 1, "put_file")
                       /\ trace[k + 1].item = m
                       /\ trace[k + 1].path = args.source_files[m]
                       /\ trace[k + 1].dest = trace[k].dest

\* A mkdir answered 409 and the put_file after it succeeded.
C5_Witness ==
    \E k \in DOMAIN trace :
        /\ IsCall(k, "mkdir") /\ trace[k].status = 409
        /\ k < Len(trace)
        /\ IsCall(k + 1, "put_file") /\ trace[k + 1].status = NoError

\* C6: a source that does not exist gets the "does not exist" message and
\* nothing else: no server call is issued for it, no exception is raised,
\* and the loop goes on with the next source.
C6_MissingSourceIsSkipped ==
    \A k \in DOMAIN trace :
        (trace[k].type = "stat" /\ trace[k].info = "missing")
            => LET m == trace[k].item IN
               /\ Len(trace) >= k + 1
               /\ trace[k + 1] = Printed("does not exist", args.source_files[m], <<>>, m)
               /\ \A j \in DOMAIN trace : trace[j].item = m => j \in {k, k + 1}
               /\ Len(trace) = k + 1 => AfterItem(m, args.source_files, "upload_loop")
               /\ Len(trace) > k + 1 => trace[k + 2].item = m + 1

\* The first of several sources is missing and a server call was issued for
\* the second.
C6_Witness ==
    \E k, j \in DOMAIN trace :
        /\ trace[k].type = "stat" /\ trace[k].info = "missing" /\ trace[k].item = 1
        /\ trace[j].type = "call" /\ trace[j].item = 2

\* C7: a failed file_info is recovered exactly when its status is 404: then
\* "not found" is printed for the path, nothing else happens for that path
\* and the loop goes on with the next one; any other status ends the run.
C7_OnlyNotFoundIsRecovered ==
    \A k \in DOMAIN trace :
        (IsCall(k, "file_info") /\ trace[k].status # NoError)
            => LET m == trace[k].item IN
               IF trace[k].status = 404
               THEN /\ Len(trace) >= k + 1
                    /\ trace[k + 1] = Printed("not found", all_destinations[m], <<>>, m)
                    /\ trace[k].path = all_destinations[m]
                    /\ \A j \in DOMAIN trace : (j > k + 1) => trace[j].item > m
                    /\ Len(trace) = k + 1 => AfterItem(m, all_destinations, "list_loop")
                    /\ Len(trace) > k + 1 => trace[k + 2].item = m + 1
               ELSE Fatal(k)

\* The first path answered 404 and the second one an error that ended the run.
C7_Witness ==
    \E k, j \in DOMAIN trace :
        /\ IsCall(k, "file_info") /\ trace[k].status = 404 /\ trace[k].item = 1
        /\ IsCall(j, "file_info") /\ trace[j].status = 500 /\ trace[j].item = 2
        /\ pc = "crashed"

\* C8: the paths are inspected in command line order: the n-th file_info is
\* for the n-th positional argument, the source paths first and the
\* destination last.
C8_ListedInCommandLineOrder ==
    \A k \in DOMAIN trace :
        IsCall(k, "file_info")
            => trace[k].path = (args.source_files \o <<args.destination>>)[trace[k].item]

\* C9: whenever the run has issued a server call, or stands in upload or in
\* list, the login has succeeded; a run that ended in nextcloud_connect has
\* issued none.
C9_NoTransferBeforeLogin ==
    /\ (\E k \in DOMAIN trace : trace[k].type = "call") => session = "logged_in"
    /\ pc \in {"upload", "upload_loop", "put_directory", "mkdir", "put_file",
               "list", "list_loop", "nc_list", "done"} => session = "logged_in"
    /\ session # "logged_in" => trace = <<>>

\* The login was refused in a run that had sources to upload.
C9_Witness ==
    /\ pc = "crashed"
    /\ exc = HTTPResponseError(401)
    /\ session = "created"
    /\ ~args.l
    /\ Len(args.source_files) > 0

\* C10: the destination upload works with is args.destination with one "/"
\* appended when it does not end in "/", and args.destination itself when it
\* does; normalizing it again changes nothing; every mkdir, put_file and
\* put_directory is given that destination, which ends in "/".
C10_DestinationEndsWithSlash ==
    (~args.l /\ pc \in {"upload_loop", "put_directory", "mkdir", "put_file", "done"})
        => LET d == args.destination IN
           /\ Len(destination) = Len(d) + (IF Len(d) > 0 /\ d[Len(d)] = "/" THEN 0 ELSE 1)
           /\ SubSeq(destination, 1, Len(d)) = d
           /\ destination[Len(destination)] = "/"
           /\ Normalize(destination) = destination
           /\ \A k \in DOMAIN trace :
                (trace[k].type = "call"
                    /\ trace[k].what \in {"mkdir", "put_file", "put_directory"})
                    => /\ trace[k].dest = destination
                       /\ trace[k].dest[Len(trace[k].dest)] = "/"

\* A destination of more than one character that ends in "/" went unchanged
\* into a mkdir and a put_file.
C10_Witness ==
    /\ Len(args.destination) > 1
    /\ args.destination[Len(args.destination)] = "/"
    /\ \E k, j \in DOMAIN trace :
         /\ IsCall(k, "mkdir") /\ trace[k].dest = args.destination
         /\ IsCall(j, "put_file") /\ trace[j].dest = args.destination

\* C11: the resolution picks exactly one source by precedence and never mixes
\* sources: once it is over (and the config file was readable and complete)
\* url, username and password are the three flags when all three were given,
\* else the three values of the explicit config file when one was given; they
\* are those of the default file only when neither applies; and they are
\* always the triple of one of these three sources.
C11_ExactlyOneSourceByPrecedence ==
    (pc # "nextcloud_connect" /\ exc.type \notin {"OSError", "KeyError"})
        => LET explicit == args.server # None /\ args.user # None
                               /\ args.password # None
               FromFile(f) == <<ConfigValue(f, "url"), ConfigValue(f, "username"),
                                ConfigValue(f, "password")>>
               FromFlags == <<args.server, args.user, args.password>>
               got == <<url, username, password>>
           IN /\ explicit => got = FromFlags
              /\ (~explicit /\ args.config # None) => got = FromFile(args.config)
              /\ got = FromFile(DEFAULT_SETTINGS_FILE)
                    => (~explicit /\ args.config = None)
              /\ got \in {FromFlags, FromFile(args.config),
                          FromFile(DEFAULT_SETTINGS_FILE)}

\* C12: when several paths are listed, the first thing the run does for each
\* path is to print its header, and a header is printed nowhere else; when
\* one path is listed no header is printed at all.
C12_HeaderIffSeveralPaths ==
    (args.l /\ all_destinations # <<>>)
        => IF Len(all_destinations) > 1
           THEN \A k \in DOMAIN trace :
                    (k = 1 \/ trace[k - 1].item # trace[k].item)
                        <=> trace[k] = Printed("header", all_destinations[trace[k].item],
                                               <<>>, trace[k].item)
           ELSE \A k \in DOMAIN trace : trace[k].what # "header"

\* Two paths or more, and the header of the second one came before its
\* "not found".
C12_Witness ==
    /\ Len(all_destinations) > 1
    /\ \E k \in DOMAIN trace :
         /\ trace[k].what = "header" /\ trace[k].item = 2
         /\ Len(trace) >= k + 2
         /\ trace[k + 2].what = "not found" /\ trace[k + 2].item = 2

\* The positions of the calls of a method for the item m.
CallsOf(what, m) == {k \in DOMAIN trace : IsCall(k, what) /\ trace[k].item = m}

\* What exists() and is_dir() answered for the item m.
StatOf(m) == {trace[k].info : k \in {j \in DOMAIN trace : trace[j].type = "stat"
                                                          /\ trace[j].item = m}}

\* C15: in upload the history is ordered by source item, in command line
\* order; a source gets at most one put operation, put_directory when it is a
\* directory and put_file when it is a file; mkdir is issued for file sources
\* only, once, before the put_file of the source.
C15_UploadIsSequential ==
    ~args.l
        => /\ \A j, k \in DOMAIN trace : j < k => trace[j].item <= trace[k].item
           /\ \A k \in DOMAIN trace :
                (trace[k].type = "call" /\ trace[k].what # "mkdir")
                    => trace[k].path = args.source_files[trace[k].item]
           /\ \A m \in DOMAIN args.source_files :
                /\ Cardinality(CallsOf("put_directory", m) \cup CallsOf("put_file", m)) <= 1
                /\ CallsOf("put_directory", m) # {} => StatOf(m) = {"dir"}
                /\ CallsOf("put_file", m) # {} => StatOf(m) = {"file"}
                /\ CallsOf("mkdir", m) # {} => StatOf(m) = {"file"}
                /\ Cardinality(CallsOf("mkdir", m)) <= 1
                /\ \A k \in CallsOf("put_file", m) :
                      \E j \in CallsOf("mkdir", m) : j < k
                /\ StatOf(m) = {"file"}
                      => \/ pc = "mkdir" /\ i = m
                         \/ Cardinality(CallsOf("mkdir", m)) = 1

\* A directory, then a file: put_directory for the first, mkdir and put_file
\* for the second, and the run ended normally.
C15_Witness ==
    /\ pc = "done"
    /\ CallsOf("put_directory", 1) # {}
    /\ CallsOf("mkdir", 2) # {}
    /\ CallsOf("put_file", 2) # {}

\* C16: a put_file that fails, with whatever status, ends the run there:
\* nothing is done or printed for a later source.
C16_PutFileFailureAborts ==
    \A k \in DOMAIN trace :
        (IsCall(k, "put_file") /\ trace[k].status # NoError) => Fatal(k)

\* The put_file of the first of two sources failed.
C16_Witness ==
    /\ Len(args.source_files) > 1
    /\ \E k \in CallsOf("put_file", 1) : trace[k].status = 409

\* C17: one workflow runs: with -l the run never stands in upload and issues
\* no mkdir, put_file or put_directory; without -l it never stands in list
\* and issues no file_info or list.
C17_ModesDoNotLeak ==
    /\ \A k \in DOMAIN trace :
          trace[k].type = "call"
              => IF args.l THEN trace[k].what \in {"file_info", "list"}
                 ELSE trace[k].what \in {"mkdir", "put_file", "put_directory"}
    /\ pc \in {"upload", "upload_loop", "put_directory", "mkdir", "put_file"} => ~args.l
    /\ pc \in {"list", "list_loop", "nc_list"} => args.l

\* A list run over several paths that fetched the children of a directory.
C17_Witness ==
    /\ args.l
    /\ Len(args.source_files) > 0
    /\ pc = "done"
    /\ \E k \in DOMAIN trace : IsCall(k, "list")

\* C18: a failed nc.list, with whatever status (404 too), ends the run there,
\* and it came right after a file_info of the same path that reported a
\* directory.
C18_ListFailureAborts ==
    \A k \in DOMAIN trace :
        (IsCall(k, "list") /\ trace[k].status # NoError)
            => /\ Fatal(k)
               /\ k > 1
               /\ IsCall(k - 1, "file_info")
               /\ trace[k - 1].info = "dir"
               /\ trace[k - 1].item = trace[k].item
               /\ trace[k - 1].path = trace[k].path

\* nc.list answered 404 for a path that was not the last one.
C18_Witness ==
    \E k \in DOMAIN trace :
        /\ IsCall(k, "list") /\ trace[k].status = 404
        /\ trace[k].item < Len(all_destinations)

\* A printed size column without the spaces in front of it.
RECURSIVE Strip(_)
Strip(text) == IF text # <<>> /\ text[1] = " " THEN Strip(Tail(text)) ELSE text

\* The largest of a nonempty set of numbers.
Largest(S) == CHOOSE x \in S : \A y \in S : y <= x

\* C13: one call of _print_nc_files prints one line per entry, in the order
\* of the list; every size column has the same width, the length of the
\* longest rendered size of the list, and is the rendered size of its entry
\* with spaces in front.
C13_SizeColumnIsAligned ==
    (pc = "done" /\ file_list # <<>>)
        => LET width == Largest({Len(SizeString(args.human_readable, file_list[k])) :
                                    k \in DOMAIN file_list})
           IN /\ Len(trace) = Len(file_list)
              /\ \A k \in DOMAIN trace :
                    /\ trace[k].what = "entry"
                    /\ Len(trace[k].text) = width
                    /\ Strip(trace[k].text)
                          = SizeString(args.human_readable, file_list[k])
                    /\ trace[k].path = BaseName(file_list[k].path)
                          \o (IF file_list[k].is_dir THEN <<"/">> ELSE <<>>)
              /\ \E k \in DOMAIN trace : trace[k].text[1] # " "

\* Two entries in human readable form, the second one shorter than the first
\* and padded.
C13_Witness ==
    /\ pc = "done"
    /\ args.human_readable
    /\ Len(trace) = 2
    /\ trace[1].text[1] # " "
    /\ trace[2].text[1] = " "
\* The index of the unit a returned text ends with: 0 for none, 1 for K, up
\* to 7 for Z, and 8 for Yi.
UnitIndex(text) ==
    LET c == text[Len(text)]
    IN IF c = "i" THEN Len(Units)
       ELSE IF \E k \in DOMAIN Units : Units[k] = c
            THEN (CHOOSE k \in DOMAIN Units : Units[k] = c) - 1
            ELSE 0

\* The divisions by 1024 that bring the number below 1024, at most eight.
DivisionsOf(ds) == IF Len(ds) - 1 < Len(Units) THEN Len(ds) - 1 ELSE Len(Units)

\* a <= b for two numbers.
Leq(a, b) ==
    \/ Len(a) < Len(b)
    \/ /\ Len(a) = Len(b)
       /\ \/ a = b
          \/ \E k \in DOMAIN a : /\ a[k] < b[k]
                                 /\ \A j \in 1..(k - 1) : a[j] = b[j]

\* C14 as stated: the unit of sizeof_fmt(n) has the index of the number of
\* divisions by 1024 that bring n itself below 1024, Yi is used exactly from
\* n = 1024**8 on, and the index never decreases when n increases.  This is
\* violated: 1024**8 - 1 is formatted "1.0Yi" and 2**60 - 1 "1.0E".
C14_UnitIsDivisionCountOfN ==
    /\ \A k \in DOMAIN fmt :
          /\ UnitIndex(fmt[k]) = DivisionsOf(nums[k])
          /\ (fmt[k][Len(fmt[k])] = "i") <=> (Len(nums[k]) > Len(Units))
    /\ \A j, k \in DOMAIN fmt :
          Leq(nums[j], nums[k]) => UnitIndex(fmt[j]) <= UnitIndex(fmt[k])

\* C14, amended: the unit of sizeof_fmt(n) has the index of the number of
\* divisions by 1024 that bring float(n), n rounded to the nearest float,
\* below 1024, with Yi from float(n) = 1024**8 on.  That is the number of
\* divisions for n itself whenever n has at most 53 bits, and otherwise that
\* number or one more.  The index never decreases when n increases, and 0 has
\* no unit, 1024 and 1536 have K.
C14_UnitIsDivisionCountOfFloat ==
    /\ \A k \in DOMAIN fmt :
          /\ UnitIndex(fmt[k]) = DivisionsOf(ToFloat(nums[k]))
          /\ (fmt[k][Len(fmt[k])] = "i") <=> (Len(ToFloat(nums[k])) > Len(Units))
          /\ UnitIndex(fmt[k]) \in {DivisionsOf(nums[k]), DivisionsOf(nums[k]) + 1}
          /\ BitsOf(nums[k]) <= MantissaBits
                => UnitIndex(fmt[k]) = DivisionsOf(nums[k])
          /\ nums[k] = <<0>> => fmt[k] = <<"0", ".", "0">>
          /\ nums[k] = <<1, 0>> => fmt[k] = <<"1", ".", "0", "K">>
          /\ nums[k] = <<1, 512>> => fmt[k] = <<"1", ".", "5", "K">>
    /\ \A j, k \in DOMAIN fmt :
          Leq(nums[j], nums[k]) => UnitIndex(fmt[j]) <= UnitIndex(fmt[k])

\* 1536 was formatted "1.5K" and then 1024**8 - 1 "1.0Yi".
C14_Witness ==
    /\ pc = "done"
    /\ nums = <<<<1, 512>>, <<1023, 1023, 1023, 1023, 1023, 1023, 1023, 1023>>>>
    /\ fmt = <<<<"1", ".", "5", "K">>, <<"1", ".", "0", "Y", "i">>>>

====
